---- MODULE Spec2Model ----
(***************************************************************************)
(* Model of the resilience layer of CeesarWallet                           *)
(* (src/ml-algorithm/src/trading/resilience.py): the classes               *)
(* CircuitBreaker, RetryManager, RateLimiter and Bulkhead.  Each class is  *)
(* explored by a specification of its own, in which the objects of the     *)
(* other classes stay as their constructor left them.                      *)
(*                                                                         *)
(* CircuitBreaker: its fields, the helpers _should_attempt_reset,          *)
(* _record_success, _record_failure and the                                *)
(* coroutine call(), run by several asyncio tasks ("callers").  Inside     *)
(* call() the only suspension point is the await of the wrapped operation, *)
(* so a call is two atomic steps (the gate, lines 266-277, and the         *)
(* recording of the outcome, lines 289-301) when the operation is a        *)
(* coroutine function, and one atomic step when it is a plain function.    *)
(* The tasks are interchangeable, so the calls in flight are kept as a     *)
(* count per state in which the gate admitted them.                        *)
(*                                                                         *)
(* RetryManager: calculate_delay as the set of values it can return (it    *)
(* draws random numbers), and one run of execute_with_retry, a step per    *)
(* invocation of the operation and a step per asyncio.sleep.               *)
(*                                                                         *)
(* RateLimiter: acquire() is one atomic step (it holds the lock and has no *)
(* suspension point); the clock advances between calls.                    *)
(*                                                                         *)
(* Bulkhead: the context manager acquire() run by several asyncio tasks.   *)
(* asyncio.Semaphore is followed as CPython implements it: a counter and a *)
(* queue of waiting futures; a task takes a permit at once when the        *)
(* counter is above zero and nobody waits, and queues otherwise; release() *)
(* hands the permit to the oldest waiting future, whose task runs again    *)
(* in a later step.  Lines 378-379 follow the return of                    *)
(* semaphore.acquire() without a suspension point, and so do lines 384-386 *)
(* the leaving of the body.                                                *)
(*                                                                         *)
(* TimeoutManager: one run of execute_with_timeout: the call, the end of   *)
(* the operation or of the deadline, and the end of the cancellation that  *)
(* asyncio.wait_for awaits before it raises.                               *)
(*                                                                         *)
(* ResilienceManager: the three registries, each followed for one name,    *)
(* get_statistics, and execute_with_resilience run by one task at a time:  *)
(* a step for the rate-limit stage (and one per sleep of wait_for_permit), *)
(* a step for the bulkhead stage, and a step per invocation of the         *)
(* operation; the finally clause of the bulkhead runs in the step that     *)
(* ends the call.  The registry is changed between calls only.             *)
(*                                                                         *)
(* Time is counted in ticks of a tenth of a second; the delays returned by *)
(* calculate_delay are in half ticks, which makes the jitter factors 0.5,  *)
(* 1.0 and 1.5 the integers 1, 2 and 3.                                    *)
(***************************************************************************)
EXTENDS Integers, Sequences, FiniteSets, TLC

\* ------------------------------------------------------------------ bounds
NumCallers == 2
MaxFailureThreshold == 2
MaxSuccessThreshold == 2
MaxRecoveryTimeout == 2
\* the clock stops TimeSlack ticks after recovery_timeout
TimeSlack == 1
\* the operation is invoked at most failure_threshold + success_threshold +
\* CallSlack times
CallSlack == 0
\* RetryConfig.max_attempts, base_delay, max_delay and backoff_multiplier
\* range up to these
MaxAttempts == 3
MaxBaseDelay == 2
MaxMaxDelay == 3
MaxMultiplier == 2
\* NumWaiters tasks call wait_for_permit, each at most StartSlack ticks
\* after the clock started
NumWaiters == 2
StartSlack == 1
\* RateLimiter.max_requests and time_window (in ticks) range up to these
MaxRequests == 2
MaxWindow == 2
\* acquire() is called at most max_requests + 2 + AcquireSlack times, and the
\* clock stops WindowSlack ticks after time_window
AcquireSlack == 1
WindowSlack == 1
\* Bulkhead.max_concurrent ranges up to MaxConcurrent; NumTasks tasks use the
\* bulkhead and enter acquire() at most max_concurrent + 2 + EntrySlack
\* times in all
MaxConcurrent == 2
NumTasks == 3
EntrySlack == 0
\* TimeoutManager.default_timeout and the timeout argument (in ticks) range
\* up to MaxTimeout, and the clock stops DeadlineSlack ticks after that
MaxTimeout == 2
DeadlineSlack == 1
\* the ResilienceManager: at most MaxManagerCalls calls of its methods
\* (create_* and execute_with_resilience together), retry_config.max_attempts
\* up to MaxManagerAttempts, and the clock stops at MaxManagerTime
MaxManagerCalls == 5
MaxManagerAttempts == 2
MaxManagerTime == 1

\* ------------------------------------------------------- program constants
\* last_failure_time / last_success_time before any failure / success (None)
NoTime == -1

\* CircuitState
CLOSED == "closed"
OPEN == "open"
HALF_OPEN == "half_open"
CircuitState == {CLOSED, OPEN, HALF_OPEN}

\* CircuitBreakerConfig values a breaker is created with
Configs ==
    [failure_threshold : 1..MaxFailureThreshold,
     recovery_timeout  : 1..MaxRecoveryTimeout,
     success_threshold : 1..MaxSuccessThreshold]

\* CircuitBreakerConfig(failure_threshold=3, recovery_timeout=1.0 s,
\* success_threshold=2) of the end-to-end scenario, in ticks of 0.1 s
ScenarioConfig ==
    [failure_threshold |-> 3, recovery_timeout |-> 10, success_threshold |-> 2]

\* What the wrapped operation does once invoked: it returns, raises an
\* Exception, overruns config.timeout (asyncio.TimeoutError), or leaves with
\* a BaseException that is no Exception (asyncio.CancelledError, SystemExit)
Outcomes == {"ok", "error", "timeout", "base"}

VARIABLES
    cb,           \* the CircuitBreaker's fields
    cfg,          \* its CircuitBreakerConfig
    now,          \* datetime.now(timezone.utc), in ticks
    inflight,     \* inflight[s]: calls awaiting their operation that the gate
                  \*   admitted when it found state s (s = OPEN: the calls
                  \*   that moved the breaker to HALF_OPEN)
    invocations,  \* history: number of times the operation was invoked
    sequential,   \* history: no call ever began while another was in flight
    openedAt,     \* history: instant of the latest transition into OPEN
    failed,       \* history: operations that raised an Exception or timed out
    succeeded,    \* history: operations that returned
    streak,       \* history: failed operations since the last one that returned
    succStreak,   \* history: returned operations since the last one that failed
    probeSucc,    \* history: operations that returned while the breaker was
                  \*   HALF_OPEN, since it last left OPEN
    lastEv        \* history: the latest thing call() did (see Event)

VARIABLES
    rcfg,         \* the RetryManager's RetryConfig
    excs,         \* the exceptions argument of execute_with_retry
    rt,           \* the frame of the running execute_with_retry (see NewRun)
    outcomes,     \* history: how each invocation of the operation ended
    slept,        \* history: number of asyncio.sleep calls made
    calc          \* the latest direct call of calculate_delay and its result

VARIABLES
    rl,           \* the RateLimiter's fields
    acqs,         \* history: the acquire() calls made, in order: the instant
                  \*   of each and what it returned
    wp            \* wp[c]: the frame of caller c's wait_for_permit (see
                  \*   NoWait)

VARIABLES
    bh,           \* the Bulkhead's fields (semaphore: the permits free)
    bpc,          \* bpc[t]: where task t is in acquire(): "out", "waiting"
                  \*   (in semaphore.acquire()) or "inside" (in the body)
    entries,      \* history: number of times acquire() was entered
    lastExit      \* history: how acquire() was last left: one of ExitPaths
                  \*   from the body, "cancelled waiting" from line 376

VARIABLES
    tm            \* the TimeoutManager and the frame of execute_with_timeout
                  \*   (see NewTimeoutManager)

VARIABLES
    registry,     \* registry[k]: the instance the ResilienceManager holds in
                  \*   its map k under the name followed: 0 for none, else
                  \*   the number of the create call that made it; its
                  \*   fields are cb and cfg, rl, bh
    call,         \* the frame of execute_with_resilience (see NoCall)
    trace,        \* history: what the running or last call did, in order
    calls,        \* history: number of execute_with_resilience calls made
    stats         \* what get_statistics returned (see NoStats)

\* the circuit breaker, without the clock
cbVars == <<cb, cfg, inflight, invocations, sequential, openedAt, failed,
            succeeded, streak, succStreak, probeSucc, lastEv>>

rmVars == <<rcfg, excs, rt, outcomes, slept, calc>>

rlVars == <<rl, acqs, wp>>

bhVars == <<bh, bpc, entries, lastExit>>

tmVars == <<tm>>

mgVars == <<registry, call, trace, calls, stats>>

\* the objects a specification of the circuit breaker leaves alone
notBreaker == <<rmVars, rlVars, bhVars, tmVars, mgVars>>

\* the objects a specification of the retry manager leaves alone
notRetry == <<cbVars, now, rlVars, bhVars, tmVars, mgVars>>

\* the objects a specification of the rate limiter leaves alone
notLimiter == <<cbVars, rmVars, bhVars, tmVars, mgVars>>

\* the objects a specification of the bulkhead leaves alone
notBulkhead == <<cbVars, now, rmVars, rlVars, tmVars, mgVars>>

\* the objects a specification of the timeout manager leaves alone
notTimeout == <<cbVars, rmVars, rlVars, bhVars, mgVars>>

\* what the ResilienceManager leaves alone: the history of the
\* specifications of the single classes, and the objects outside its maps
notManager ==
    <<inflight, invocations, sequential, openedAt, failed, succeeded, streak,
      succStreak, probeSucc, lastEv, rmVars, acqs, wp, bpc, entries, lastExit,
      tmVars>>

vars == <<cbVars, now, rmVars, rlVars, bhVars, tmVars, mgVars>>

\* bounds of the exploration, per configuration
MaxCalls == cfg.failure_threshold + cfg.success_threshold + CallSlack
MaxTime == cfg.recovery_timeout + TimeSlack

\* ------------------------------------------------------------ CircuitBreaker

\* CircuitBreaker.__init__
NewBreaker ==
    [state |-> CLOSED, failure_count |-> 0, success_count |-> 0,
     last_failure_time |-> NoTime, last_success_time |-> NoTime,
     total_requests |-> 0, total_failures |-> 0, total_successes |-> 0]

\* _should_attempt_reset with the comparison turned round (a bug)
should_attempt_reset_early(b, c, t) ==
    IF b.state # OPEN THEN FALSE
    ELSE IF b.last_failure_time = NoTime THEN TRUE
    ELSE t - b.last_failure_time <= c.recovery_timeout

\* CircuitBreaker._should_attempt_reset
should_attempt_reset(b, c, t) ==
    IF b.state # OPEN THEN FALSE
    ELSE IF b.last_failure_time = NoTime THEN TRUE
    ELSE t - b.last_failure_time >= c.recovery_timeout

\* _record_success closing the breaker from OPEN too (a bug): the test of
\* line 224 taken as state != CLOSED
record_success_closes_open(b, c, t) ==
    LET b1 == [b EXCEPT !.total_requests = @ + 1,
                        !.total_successes = @ + 1,
                        !.last_success_time = t]
    IN  IF b1.state # CLOSED
        THEN LET b2 == [b1 EXCEPT !.success_count = @ + 1]
             IN  IF b2.success_count >= c.success_threshold
                 THEN [b2 EXCEPT !.state = CLOSED,
                                 !.failure_count = 0,
                                 !.success_count = 0]
                 ELSE b2
        ELSE [b1 EXCEPT !.failure_count = 0]

\* _record_success closing one success late: > for >= (a bug)
record_success_late(b, c, t) ==
    LET b1 == [b EXCEPT !.total_requests = @ + 1,
                        !.total_successes = @ + 1,
                        !.last_success_time = t]
    IN  IF b1.state = HALF_OPEN
        THEN LET b2 == [b1 EXCEPT !.success_count = @ + 1]
             IN  IF b2.success_count > c.success_threshold
                 THEN [b2 EXCEPT !.state = CLOSED,
                                 !.failure_count = 0,
                                 !.success_count = 0]
                 ELSE b2
        ELSE [b1 EXCEPT !.failure_count = 0]

\* _record_success without the reset of failure_count outside HALF_OPEN (a
\* bug): failures separated by a success add up
record_success_keep_failures(b, c, t) ==
    LET b1 == [b EXCEPT !.total_requests = @ + 1,
                        !.total_successes = @ + 1,
                        !.last_success_time = t]
    IN  IF b1.state = HALF_OPEN
        THEN LET b2 == [b1 EXCEPT !.success_count = @ + 1]
             IN  IF b2.success_count >= c.success_threshold
                 THEN [b2 EXCEPT !.state = CLOSED,
                                 !.failure_count = 0,
                                 !.success_count = 0]
                 ELSE b2
        ELSE b1

\* CircuitBreaker._record_success
record_success(b, c, t) ==
    LET b1 == [b EXCEPT !.total_requests = @ + 1,
                        !.total_successes = @ + 1,
                        !.last_success_time = t]
    IN  IF b1.state = HALF_OPEN
        THEN LET b2 == [b1 EXCEPT !.success_count = @ + 1]
             IN  IF b2.success_count >= c.success_threshold
                 THEN [b2 EXCEPT !.state = CLOSED,
                                 !.failure_count = 0,
                                 !.success_count = 0]
                 ELSE b2
        ELSE [b1 EXCEPT !.failure_count = 0]

\* _record_failure that does not count the failure in total_failures (a bug)
record_failure_uncounted(b, c, t) ==
    LET b1 == [b EXCEPT !.total_requests = @ + 1,
                        !.last_failure_time = t]
    IN  IF b1.state = HALF_OPEN
        THEN [b1 EXCEPT !.state = OPEN, !.success_count = 0]
        ELSE LET b2 == [b1 EXCEPT !.failure_count = @ + 1]
             IN  IF b2.failure_count >= c.failure_threshold
                 THEN [b2 EXCEPT !.state = OPEN]
                 ELSE b2

\* _record_failure opening one failure late: > for >= (a bug)
record_failure_late(b, c, t) ==
    LET b1 == [b EXCEPT !.total_requests = @ + 1,
                        !.total_failures = @ + 1,
                        !.last_failure_time = t]
    IN  IF b1.state = HALF_OPEN
        THEN [b1 EXCEPT !.state = OPEN, !.success_count = 0]
        ELSE LET b2 == [b1 EXCEPT !.failure_count = @ + 1]
             IN  IF b2.failure_count > c.failure_threshold
                 THEN [b2 EXCEPT !.state = OPEN]
                 ELSE b2

\* _record_failure treating HALF_OPEN like CLOSED: the half-open branch is
\* missing, so a failed probe only counts towards failure_threshold (a bug)
record_failure_no_reopen(b, c, t) ==
    LET b1 == [b EXCEPT !.total_requests = @ + 1,
                        !.total_failures = @ + 1,
                        !.last_failure_time = t]
        b2 == [b1 EXCEPT !.failure_count = @ + 1]
    IN  IF b2.failure_count >= c.failure_threshold
        THEN [b2 EXCEPT !.state = OPEN]
        ELSE b2

\* _record_failure that does not set last_failure_time (a bug)
record_failure_no_time(b, c, t) ==
    LET b1 == [b EXCEPT !.total_requests = @ + 1,
                        !.total_failures = @ + 1]
    IN  IF b1.state = HALF_OPEN
        THEN [b1 EXCEPT !.state = OPEN, !.success_count = 0]
        ELSE LET b2 == [b1 EXCEPT !.failure_count = @ + 1]
             IN  IF b2.failure_count >= c.failure_threshold
                 THEN [b2 EXCEPT !.state = OPEN]
                 ELSE b2

\* CircuitBreaker._record_failure
record_failure(b, c, t) ==
    LET b1 == [b EXCEPT !.total_requests = @ + 1,
                        !.total_failures = @ + 1,
                        !.last_failure_time = t]
    IN  IF b1.state = HALF_OPEN
        THEN [b1 EXCEPT !.state = OPEN, !.success_count = 0]
        ELSE LET b2 == [b1 EXCEPT !.failure_count = @ + 1]
             IN  IF b2.failure_count >= c.failure_threshold
                 THEN [b2 EXCEPT !.state = OPEN]
                 ELSE b2

\* call(), lines 266-269: the call is refused with CircuitBreakerOpenException
gate_rejects(b, c, t) ==
    b.state = OPEN /\ ~should_attempt_reset(b, c, t)

\* a refused call counted as a failure at instant t (a bug)
gate_reject_postpones(b, t) == [b EXCEPT !.last_failure_time = t]

\* call(), lines 266-269: the breaker as a call refused at instant t leaves it
gate_reject(b, t) == b

\* the gate admitting from OPEN without moving to HALF_OPEN (a bug)
gate_admit_stays_open(b) == b

\* call(), lines 266-277: the breaker as an admitted call leaves it
gate_admit(b) ==
    IF b.state = OPEN
    THEN [b EXCEPT !.state = HALF_OPEN, !.success_count = 0]
    ELSE b

\* call() re-raising a timeout without recording it (a bug)
record_outcome_drop_timeout(b, c, t, o) ==
    CASE o = "ok" -> record_success(b, c, t)
      [] o = "error" -> record_failure(b, c, t)
      [] OTHER -> b

\* call(), lines 280-301: the breaker after the operation ended with o
record_outcome(b, c, t, o) ==
    CASE o = "ok" -> record_success(b, c, t)
      [] o \in {"error", "timeout"} -> record_failure(b, c, t)
      [] OTHER -> b

\* call() reporting a timed-out operation as a rejection (a bug)
call_result_open(o) ==
    CASE o = "ok" -> "returned"
      [] o = "timeout" -> "CircuitBreakerOpenException"
      [] o = "error" -> "CircuitBreakerException"
      [] OTHER -> "BaseException"

\* call(), lines 290-301: what the caller gets for outcome o
call_result(o) ==
    CASE o = "ok" -> "returned"
      [] o = "timeout" -> "CircuitBreakerTimeoutException"
      [] o = "error" -> "CircuitBreakerException"
      [] OTHER -> "BaseException"

\* -------------------------------------------------------------- RetryManager

\* RetryStrategy
FIXED == "fixed"
EXPONENTIAL == "exponential"
LINEAR == "linear"
RANDOM == "random"
RetryStrategy == {FIXED, EXPONENTIAL, LINEAR, RANDOM}

\* RetryConfig values a manager is created with (delays in ticks)
RetryConfigs ==
    [max_attempts       : 1..MaxAttempts,
     base_delay         : 0..MaxBaseDelay,
     max_delay          : 0..MaxMaxDelay,
     strategy           : RetryStrategy,
     jitter             : BOOLEAN,
     backoff_multiplier : 1..MaxMultiplier]

\* the configurations calculate_delay is explored with: max_attempts plays
\* no part in it
DelayConfigs == {c \in RetryConfigs : c.max_attempts = 1}

\* the configurations execute_with_retry is explored with: every
\* max_attempts, strategy and jitter, one choice of the delay parameters
RunConfigs ==
    {c \in RetryConfigs : /\ c.base_delay = 1
                          /\ c.max_delay = MaxMaxDelay
                          /\ c.backoff_multiplier = MaxMultiplier}

\* RetryConfig() with the defaults of the dataclass, the delays in ticks
DefaultRetryConfig ==
    [max_attempts |-> 3, base_delay |-> 10, max_delay |-> 600,
     strategy |-> EXPONENTIAL, jitter |-> TRUE, backoff_multiplier |-> 2]

\* half ticks in a tick: the unit of the values calculate_delay returns
HalfTicks == 2

\* the values random.uniform(0.5, 1.5) is explored with, in halves
JitterFactors == {1, 2, 3}

\* b ** n
RECURSIVE Pow(_, _)
Pow(b, n) == IF n <= 0 THEN 1 ELSE b * Pow(b, n - 1)

\* min(v, w)
Min(v, w) == IF v <= w THEN v ELSE w

\* the exponential delay with the exponent one too large (a bug)
strategy_delay_early(c, attempt) ==
    CASE c.strategy = FIXED -> {c.base_delay}
      [] c.strategy = EXPONENTIAL ->
            {c.base_delay * Pow(c.backoff_multiplier, attempt)}
      [] c.strategy = LINEAR -> {c.base_delay * attempt}
      [] c.strategy = RANDOM -> c.base_delay .. c.base_delay * attempt
      [] OTHER -> {c.base_delay}

\* calculate_delay, lines 81-93: the values of delay before jitter, in ticks
strategy_delay(c, attempt) ==
    CASE c.strategy = FIXED -> {c.base_delay}
      [] c.strategy = EXPONENTIAL ->
            {c.base_delay * Pow(c.backoff_multiplier, attempt - 1)}
      [] c.strategy = LINEAR -> {c.base_delay * attempt}
      [] c.strategy = RANDOM -> c.base_delay .. c.base_delay * attempt
      [] OTHER -> {c.base_delay}

\* calculate_delay, lines 96-98: the values of delay after jitter, in half
\* ticks, for the value d before it
apply_jitter(c, d) ==
    IF c.jitter THEN {d * f : f \in JitterFactors} ELSE {d * HalfTicks}

\* calculate_delay returning the delay as it is, without the cap (a bug)
cap_delay_missing(c, v) == v

\* calculate_delay, line 101: min(delay, max_delay), in half ticks
cap_delay(c, v) == Min(v, c.max_delay * HalfTicks)

\* RetryManager.calculate_delay: the values it can return, in half ticks
calculate_delay(c, attempt) ==
    IF attempt <= 0 THEN {0}
    ELSE {cap_delay(c, v) :
            v \in UNION {apply_jitter(c, d) : d \in strategy_delay(c, attempt)}}

\* Exception types the operation raises
ErrorTypes == {"ValueError", "ConnectionError"}

\* what an invocation of the operation does: it returns, raises one of the
\* Exception types, or leaves with a BaseException that is no Exception
Invocations == {"ok"} \cup ErrorTypes \cup {"CancelledError"}

\* the exceptions argument: None (given = FALSE) or a list of Exception types
ExceptionArgs ==
    {[given |-> FALSE, types |-> {}]}
        \cup [given : {TRUE}, types : SUBSET ErrorTypes]

\* last_exception = None
NoError == [type |-> "None", at |-> 0]

\* the exception (of type ty) raised by the invocation of attempt a
Error(ty, a) == [type |-> ty, at |-> a]

\* the except clause catching whatever the filter says (a bug)
catches_all(x, ty) == ty \in ErrorTypes

\* execute_with_retry, lines 111-112 and 131: except tuple(exceptions)
\* catches an exception of type ty
catches(x, ty) ==
    IF ~x.given THEN ty \in ErrorTypes ELSE ty \in x.types

\* the test for the last attempt letting the last attempt sleep too (a bug)
is_last_attempt_late(c, attempt) == attempt > c.max_attempts

\* execute_with_retry, line 145
is_last_attempt(c, attempt) == attempt = c.max_attempts

\* execute_with_retry entered, about to make attempt 1.  pc is "attempt"
\* (the operation is about to be invoked), "sleep" (in asyncio.sleep),
\* "returned" or "raised"; returned is the attempt whose result was
\* returned (0: none), raised the exception that left the function
NewRun ==
    [pc |-> "attempt", attempt |-> 1, last_exception |-> NoError,
     delay |-> 0, returned |-> 0, raised |-> NoError]

\* execute_with_retry, lines 116 and 152-162: asyncio.sleep returned, the
\* for loop takes its next value or ends
next_attempt(c, r) ==
    IF r.attempt + 1 <= c.max_attempts
    THEN [r EXCEPT !.pc = "attempt", !.attempt = @ + 1]
    ELSE [r EXCEPT !.pc = "raised", !.raised = r.last_exception]

\* the return placed inside "if attempt > 1": a success of the first attempt
\* falls out of the try and the loop goes on (a bug)
on_success_first_ignored(c, r) ==
    IF r.attempt > 1
    THEN [r EXCEPT !.pc = "returned", !.returned = r.attempt]
    ELSE next_attempt(c, r)

\* execute_with_retry, lines 118-129: the invocation returned
on_success(c, r) == [r EXCEPT !.pc = "returned", !.returned = r.attempt]

\* execute_with_retry, lines 131-150: the invocation raised an exception of
\* type ty; d is the value calculate_delay returns if it is called
on_error(c, x, r, ty, d) ==
    LET e == Error(ty, r.attempt)
    IN  IF ~catches(x, ty)
        THEN [r EXCEPT !.pc = "raised", !.raised = e]
        ELSE IF is_last_attempt(c, r.attempt)
        THEN [r EXCEPT !.last_exception = e, !.pc = "raised", !.raised = e]
        ELSE [r EXCEPT !.last_exception = e, !.pc = "sleep", !.delay = d]

\* no direct call of calculate_delay made yet
NoCalc == [attempt |-> 0, delay |-> 0]

\* --------------------------------------------------------------- RateLimiter

\* RateLimiter.__init__
NewLimiter(max_requests, time_window) ==
    [max_requests |-> max_requests, time_window |-> time_window,
     requests |-> <<>>]

\* the limiters explored
Limiters ==
    {NewLimiter(r, w) : r \in 0..MaxRequests, w \in 1..MaxWindow}

\* the eviction keeping a request that is exactly time_window old: < for <=
\* (a bug)
RECURSIVE remove_old_strict(_, _)
remove_old_strict(l, t) ==
    IF l.requests # <<>> /\ Head(l.requests) < t - l.time_window
    THEN remove_old_strict([l EXCEPT !.requests = Tail(@)], t)
    ELSE l

\* acquire, lines 341-343: the requests that are time_window old or older
\* are removed from the left of the deque
RECURSIVE remove_old(_, _)
remove_old(l, t) ==
    IF l.requests # <<>> /\ Head(l.requests) <= t - l.time_window
    THEN remove_old([l EXCEPT !.requests = Tail(@)], t)
    ELSE l

\* the test for room admitting one request too many: <= for < (a bug)
has_room_one_more(l) == Len(l.requests) <= l.max_requests

\* acquire, line 346
has_room(l) == Len(l.requests) < l.max_requests

\* RateLimiter.acquire at instant t: the limiter afterwards
acquire(l, t) ==
    LET l1 == remove_old(l, t)
    IN  IF has_room(l1)
        THEN [l1 EXCEPT !.requests = Append(@, t)]
        ELSE l1

\* RateLimiter.acquire at instant t: the value returned
acquire_result(l, t) == has_room(remove_old(l, t))

\* the tasks that call wait_for_permit
Callers == 1..NumWaiters

\* the length of asyncio.sleep(0.1) of wait_for_permit, in ticks
PollInterval == 1

\* wait_for_permit not called.  pc is "idle", "polling" (about to call
\* acquire(), line 354), "sleeping" (in asyncio.sleep(0.1), line 355) or
\* "done" (returned); wake is the instant the sleep ends; polls counts the
\* acquire() calls the frame made and got those that returned True
NoWait == [pc |-> "idle", wake |-> 0, polls |-> 0, got |-> 0]

\* wait_for_permit returning after its first acquire(), whatever it
\* returned (a bug)
after_poll_gives_up(ok) == "done"

\* wait_for_permit, lines 354-355: the loop ends when acquire() returned
\* True, and sleeps otherwise
after_poll(ok) == IF ok THEN "done" ELSE "sleeping"

\* ------------------------------------------------------------------ Bulkhead

\* the tasks that use the bulkhead
Tasks == 1..NumTasks

\* Bulkhead.__init__.  semaphore is asyncio.Semaphore._value; waiters is
\* asyncio.Semaphore._waiters, the futures of the tasks waiting in
\* semaphore.acquire(), oldest first, each with the task it belongs to and
\* whether it is done (the permit was handed to it and the task has not
\* run yet)
NewBulkhead(max_concurrent) ==
    [max_concurrent |-> max_concurrent, semaphore |-> max_concurrent,
     active_operations |-> 0, waiters |-> <<>>]

\* the bulkheads explored
Bulkheads == {NewBulkhead(m) : m \in 0..MaxConcurrent}

\* how a task leaves the body of "async with bulkhead.acquire()": the body
\* returns, it raises an exception, or the task is cancelled in it
ExitPaths == {"return", "exception", "cancelled"}

\* a semaphore that never makes a task wait (a bug)
permit_free_always(b) == TRUE

\* asyncio.Semaphore.acquire, line 376: not locked(): the counter is above
\* zero and no task waits, so the permit is taken at once
permit_free(b) == b.semaphore > 0 /\ b.waiters = <<>>

\* the future of task t is in the queue and done
woken(b, t) ==
    \E i \in DOMAIN b.waiters : b.waiters[i].task = t /\ b.waiters[i].done

\* the queue without the future of task t
without_waiter(b, t) ==
    [b EXCEPT !.waiters = SelectSeq(@, LAMBDA w : w.task # t)]

\* a release that wakes no waiter (a bug)
wake_up_next_nobody(b) == b

\* asyncio.Semaphore._wake_up_next: the first future that is not done gets
\* the permit
wake_up_next(b) ==
    LET pending == {i \in DOMAIN b.waiters : ~b.waiters[i].done}
    IN  IF pending = {} THEN b
        ELSE LET first == CHOOSE i \in pending : \A j \in pending : i <= j
             IN  [b EXCEPT !.semaphore = @ - 1, !.waiters[first].done = TRUE]

\* asyncio.Semaphore.release
release(b) == wake_up_next([b EXCEPT !.semaphore = @ + 1])

\* acquire, lines 376-379, no wait: the permit is taken and the operation
\* counted
enter_body(b) ==
    [b EXCEPT !.semaphore = @ - 1, !.active_operations = @ + 1]

\* acquire, line 376: the semaphore is locked, task t queues a future
enqueue(b, t) ==
    [b EXCEPT !.waiters = Append(@, [task |-> t, done |-> FALSE])]

\* acquire, lines 376-379, after the wait: task t, whose future is done,
\* runs again: it leaves the queue, passes a spare permit on and counts its
\* operation
resume_body(b, t) ==
    LET b1 == without_waiter(b, t)
        b2 == IF b1.semaphore > 0 THEN wake_up_next(b1) ELSE b1
    IN  [b2 EXCEPT !.active_operations = @ + 1]

\* acquire counting the operation before it waits for the permit: a task
\* cancelled in the wait leaves active_operations raised (a bug)
cancel_waiting_counted(b, t) ==
    LET b1 == without_waiter(b, t)
        b2 == IF woken(b, t)
              THEN wake_up_next([b1 EXCEPT !.semaphore = @ + 1])
              ELSE b1
    IN  [b2 EXCEPT !.active_operations = @ + 1]

\* acquire, line 376: task t is cancelled while it waits for a permit;
\* CancelledError leaves acquire() before line 378 and before the try.  Its
\* future leaves the queue, and a permit already handed to it goes back
cancel_waiting(b, t) ==
    LET b1 == without_waiter(b, t)
    IN  IF woken(b, t)
        THEN wake_up_next([b1 EXCEPT !.semaphore = @ + 1])
        ELSE b1

\* acquire without try/finally: the release is skipped when the body does
\* not return normally (a bug)
leave_body_on_return_only(b, how) ==
    IF how = "return"
    THEN release([b EXCEPT !.active_operations = @ - 1])
    ELSE b

\* acquire releasing the semaphore twice (a bug)
leave_body_double_release(b, how) ==
    release(release([b EXCEPT !.active_operations = @ - 1]))

\* acquire releasing the semaphore without active_operations -= 1 (a bug)
leave_body_still_counted(b, how) == release(b)

\* acquire, lines 381-386: the body is left by path how, the finally clause
\* runs
leave_body(b, how) == release([b EXCEPT !.active_operations = @ - 1])

\* ------------------------------------------------------------ TimeoutManager

\* TimeoutManager.__init__ and no call made.  pc is "idle", "running" (the
\* operation is awaited under asyncio.wait_for), "cancelling" (the deadline
\* passed and wait_for awaits the end of the cancelled operation),
\* "returned" or "raised"; requested is the timeout argument (NoTime: None),
\* started and ended the instants execute_with_timeout was called and left,
\* deadline the instant wait_for gives up, op how the operation ended
\* ("none": it did not), result what the caller got
NewTimeoutManager(default_timeout) ==
    [default_timeout |-> default_timeout, pc |-> "idle",
     requested |-> NoTime, started |-> NoTime, deadline |-> NoTime,
     op |-> "none", result |-> "none", ended |-> NoTime]

\* TimeoutManager() as the ResilienceManager creates it: 30 s
DefaultTimeoutManager == NewTimeoutManager(300)

\* the timeout arguments explored: None and 0 .. MaxTimeout ticks
TimeoutArgs == {NoTime} \cup 0..MaxTimeout

\* how an operation awaited under the deadline ends by itself: it returns,
\* raises an Exception, or raises asyncio.TimeoutError (a deadline of its
\* own ran out)
OperationEnds == {"ok"} \cup ErrorTypes \cup {"TimeoutError"}

\* execute_with_timeout, line 416: timeout or self.default_timeout
effective_timeout(m, timeout) ==
    IF timeout = NoTime \/ timeout = 0 THEN m.default_timeout ELSE timeout

\* execute_with_timeout, lines 418-438: what the caller gets when the
\* awaited operation ends with o before the deadline
timeout_result(o) ==
    CASE o = "ok" -> "returned"
      [] o = "TimeoutError" -> "TimeoutException"
      [] OTHER -> o

\* --------------------------------------------------------- ResilienceManager

\* the maps of the ResilienceManager
Maps == {"circuit_breakers", "rate_limiters", "bulkheads"}

\* ResilienceManager.__init__: empty maps
NewRegistry == [k \in Maps |-> 0]

\* the configurations create_circuit_breaker, create_rate_limiter and
\* create_bulkhead are called with
ManagerBreakerConfigs ==
    {[failure_threshold |-> 1, recovery_timeout |-> 1, success_threshold |-> 1]}
ManagerLimiters == {NewLimiter(1, 1)}
ManagerBulkheads == {NewBulkhead(1)}

\* the arguments of execute_with_resilience: whether circuit_breaker_name,
\* rate_limiter_name and bulkhead_name are given, and
\* retry_config.max_attempts (0: retry_config is None)
ManagerArgs ==
    [circuit_breaker_name : BOOLEAN, rate_limiter_name : BOOLEAN,
     bulkhead_name : BOOLEAN, retry : 0..MaxManagerAttempts]

\* no call of execute_with_resilience made.  pc is "idle", "rate_limit"
\* (lines 513-517), "rate_sleep" (asyncio.sleep(0.1) of wait_for_permit),
\* "bulkhead" (lines 519-523), "protected" (the operation is about to be
\* invoked, lines 524-564), "retry_sleep" (asyncio.sleep of
\* execute_with_retry) or "done"; wake is the instant the sleep ends, holds
\* whether the bulkhead permit is held, attempt the attempt of
\* execute_with_retry, invoked the number of invocations of the operation,
\* last how the last one ended, result "returned" or the exception raised,
\* value the invocation whose result was returned (0: none); history: before
\* is the bulkhead's active_operations when the call was made and granted
\* the timestamp the rate limiter recorded for the call
NoCall ==
    [pc |-> "idle",
     args |-> [circuit_breaker_name |-> FALSE, rate_limiter_name |-> FALSE,
               bulkhead_name |-> FALSE, retry |-> 0],
     wake |-> 0, holds |-> FALSE, attempt |-> 0, invoked |-> 0,
     last |-> "none", result |-> "none", value |-> 0,
     before |-> 0, granted |-> NoTime]

\* the lookup that never finds the primitive (a bug)
applies_never(named, instance) == FALSE

\* execute_with_resilience, lines 514-516, 520-522 and 551-553: a name is
\* given and get_... finds an instance under it
applies(named, instance) == named /\ instance # 0

\* an operation's timeout swallowed: the call returns None (a bug)
unguarded_result_swallows(o) ==
    CASE o = "ok" -> "returned"
      [] o = "error" -> "OperationError"
      [] o = "timeout" -> "returned"
      [] OTHER -> "BaseException"

\* execute_with_timeout as execute_with_resilience uses it, lines 557-564:
\* what comes back when the operation ends with o ("OperationError": the
\* very exception the operation raised)
unguarded_result(o) ==
    CASE o = "ok" -> "returned"
      [] o = "error" -> "OperationError"
      [] o = "timeout" -> "TimeoutException"
      [] OTHER -> "BaseException"

\* execute_with_retry with exceptions=None, lines 111-112 and 131: the
\* exception kind is caught and retried
retried(kind) == kind \in {"OperationError", "TimeoutException"}

\* get_stats returning the statistics and resetting the counters (a bug)
get_stats_resets(b) ==
    [b EXCEPT !.total_requests = 0, !.total_failures = 0,
              !.total_successes = 0]

\* CircuitBreaker.get_stats, lines 189-201: the breaker afterwards
after_get_stats(b) == b

\* CircuitBreaker.get_stats, lines 191-201: the CircuitBreakerStats returned
get_stats(b) == b

\* get_statistics, lines 579-584: the entry of a rate limiter
limiter_stats(l) ==
    [max_requests |-> l.max_requests, time_window |-> l.time_window,
     current_requests |-> Len(l.requests)]

\* Bulkhead.get_stats, lines 388-396
bulkhead_stats(b) ==
    [max_concurrent |-> b.max_concurrent,
     active_operations |-> b.active_operations,
     available_permits |-> b.semaphore]

\* get_statistics not called yet
NoStats == [called |-> FALSE]

\* ResilienceManager.get_statistics: the dictionary returned, each map as the
\* set of the entries of its registered names
get_statistics(r, b, l, k) ==
    [called |-> TRUE,
     circuit_breakers |->
        IF r["circuit_breakers"] # 0 THEN {get_stats(b)} ELSE {},
     rate_limiters |->
        IF r["rate_limiters"] # 0 THEN {limiter_stats(l)} ELSE {},
     bulkheads |->
        IF r["bulkheads"] # 0 THEN {bulkhead_stats(k)} ELSE {}]

\* -------------------------------------------------------- history variables

\* number of calls awaiting their operation
InFlight == inflight[CLOSED] + inflight[OPEN] + inflight[HALF_OPEN]

\* What call() did last: kind is "invoked" (the operation was started and is
\* awaited), or what the caller got: "returned" or the exception raised.
\* from is the breaker's state when this happened: for a refusal the state
\* found by the gate, otherwise the state after the gate (the state in which
\* the outcome was recorded, or the operation started).
Event(kind, st) == [kind |-> kind, from |-> st]

FailureKinds == {"CircuitBreakerException", "CircuitBreakerTimeoutException"}

OpenedAtAfter(b, b2, t) ==
    IF b.state # OPEN /\ b2.state = OPEN THEN t ELSE openedAt

FailedAfter(o) == IF o \in {"error", "timeout"} THEN failed + 1 ELSE failed

SucceededAfter(o) == IF o = "ok" THEN succeeded + 1 ELSE succeeded

StreakAfter(o) ==
    CASE o = "ok" -> 0
      [] o \in {"error", "timeout"} -> streak + 1
      [] OTHER -> streak

SuccStreakAfter(o) ==
    CASE o = "ok" -> succStreak + 1
      [] o \in {"error", "timeout"} -> 0
      [] OTHER -> succStreak

\* b: the breaker before the gate, b1: after the gate, o: how the operation
\* ended in this step ("none": it did not end)
ProbeSuccAfter(b, b1, o) ==
    (IF b.state = OPEN /\ b1.state = HALF_OPEN THEN 0 ELSE probeSucc)
    + (IF o = "ok" /\ b1.state = HALF_OPEN THEN 1 ELSE 0)

\* ------------------------------------------------------------------ actions

InitCommon ==
    /\ cb = NewBreaker
    /\ now = 0
    /\ inflight = [s \in CircuitState |-> 0]
    /\ invocations = 0
    /\ sequential = TRUE
    /\ openedAt = NoTime
    /\ failed = 0
    /\ succeeded = 0
    /\ streak = 0
    /\ succStreak = 0
    /\ probeSucc = 0
    /\ lastEv = Event("created", CLOSED)

\* a RetryManager as constructed, no call made
RetryIdle ==
    /\ rcfg = DefaultRetryConfig
    /\ excs = [given |-> FALSE, types |-> {}]
    /\ rt = NewRun
    /\ outcomes = <<>>
    /\ slept = 0
    /\ calc = NoCalc

\* a CircuitBreaker as constructed, no call made
BreakerIdle ==
    /\ cfg = ScenarioConfig
    /\ InitCommon

\* a RateLimiter as constructed, no call made
LimiterIdle ==
    /\ rl = NewLimiter(1, 1)
    /\ acqs = <<>>
    /\ wp = [c \in Callers |-> NoWait]

\* a TimeoutManager as constructed, no call made
TimeoutIdle == tm = DefaultTimeoutManager

\* a ResilienceManager as constructed, no call made
ManagerIdle ==
    /\ registry = NewRegistry
    /\ call = NoCall
    /\ trace = <<>>
    /\ calls = 0
    /\ stats = NoStats

\* a Bulkhead as constructed, no task in it
BulkheadIdle ==
    /\ bh = NewBulkhead(1)
    /\ bpc = [t \in Tasks |-> "out"]
    /\ entries = 0
    /\ lastExit = "none"

Init ==
    /\ cfg \in Configs
    /\ InitCommon
    /\ RetryIdle
    /\ LimiterIdle
    /\ BulkheadIdle
    /\ TimeoutIdle
    /\ ManagerIdle

InitScenario ==
    /\ cfg = ScenarioConfig
    /\ InitCommon
    /\ RetryIdle
    /\ LimiterIdle
    /\ BulkheadIdle
    /\ TimeoutIdle
    /\ ManagerIdle

\* call() of a coroutine operation by an idle task, up to the await: the call
\* is refused, or the operation is started
CallGate ==
    /\ InFlight < NumCallers
    /\ IF gate_rejects(cb, cfg, now)
       THEN /\ cb' = gate_reject(cb, now)
            /\ lastEv' = Event("CircuitBreakerOpenException", cb.state)
            /\ UNCHANGED <<inflight, invocations, sequential, probeSucc>>
       ELSE /\ invocations < MaxCalls
            /\ cb' = gate_admit(cb)
            /\ inflight' = [inflight EXCEPT ![cb.state] = @ + 1]
            /\ invocations' = invocations + 1
            /\ sequential' = (sequential /\ InFlight = 0)
            /\ probeSucc' = ProbeSuccAfter(cb, cb', "none")
            /\ lastEv' = Event("invoked", cb'.state)
    /\ UNCHANGED <<cfg, now, openedAt, failed, succeeded, streak, succStreak>>
    /\ UNCHANGED notBreaker

\* call() from the end of the awaited operation to its return or raise, for
\* a call admitted in state a whose operation ends with o
Complete(a, o) ==
    /\ inflight[a] > 0
    /\ cb' = record_outcome(cb, cfg, now, o)
    /\ inflight' = [inflight EXCEPT ![a] = @ - 1]
    /\ openedAt' = OpenedAtAfter(cb, cb', now)
    /\ failed' = FailedAfter(o)
    /\ succeeded' = SucceededAfter(o)
    /\ streak' = StreakAfter(o)
    /\ succStreak' = SuccStreakAfter(o)
    /\ probeSucc' = ProbeSuccAfter(cb, cb, o)
    /\ lastEv' = Event(call_result(o), cb.state)
    /\ UNCHANGED <<cfg, now, invocations, sequential>>
    /\ UNCHANGED notBreaker

\* call() of a plain (non-coroutine) function by an idle task: gate,
\* operation and recording run without a suspension point
CallSync(o) ==
    /\ InFlight < NumCallers
    /\ IF gate_rejects(cb, cfg, now)
       THEN /\ cb' = gate_reject(cb, now)
            /\ lastEv' = Event("CircuitBreakerOpenException", cb.state)
            /\ UNCHANGED <<invocations, sequential, openedAt, failed,
                           succeeded, streak, succStreak, probeSucc>>
       ELSE /\ invocations < MaxCalls
            /\ LET b1 == gate_admit(cb)
               IN  /\ cb' = record_outcome(b1, cfg, now, o)
                   /\ openedAt' = OpenedAtAfter(b1, cb', now)
                   /\ probeSucc' = ProbeSuccAfter(cb, b1, o)
                   /\ lastEv' = Event(call_result(o), b1.state)
            /\ invocations' = invocations + 1
            /\ sequential' = (sequential /\ InFlight = 0)
            /\ failed' = FailedAfter(o)
            /\ succeeded' = SucceededAfter(o)
            /\ streak' = StreakAfter(o)
            /\ succStreak' = SuccStreakAfter(o)
    /\ UNCHANGED <<cfg, now, inflight>>
    /\ UNCHANGED notBreaker

\* the clock advances by one tick
Tick ==
    /\ now < MaxTime
    /\ now' = now + 1
    /\ UNCHANGED <<cb, cfg, inflight, invocations, sequential, openedAt,
                   failed, succeeded, streak, succStreak, probeSucc, lastEv>>
    /\ UNCHANGED notBreaker

Next ==
    \/ CallGate
    \/ \E a \in CircuitState, o \in Outcomes : Complete(a, o)
    \/ \E o \in Outcomes : CallSync(o)
    \/ Tick

Spec == Init /\ [][Next]_vars

SpecScenario == InitScenario /\ [][Next]_vars

\* ------------------------------------------------------ RetryManager actions

\* execute_with_retry(func, exceptions=excs) is called on a manager
\* configured with one of RunConfigs
InitRetry ==
    /\ rcfg \in RunConfigs
    /\ excs \in ExceptionArgs
    /\ rt = NewRun
    /\ outcomes = <<>>
    /\ slept = 0
    /\ calc = NoCalc
    /\ BreakerIdle
    /\ LimiterIdle
    /\ BulkheadIdle
    /\ TimeoutIdle
    /\ ManagerIdle

\* lines 117-150: the operation is invoked and ends with o; on a caught
\* error before the last attempt the delay is calculated and the sleep begun
RetryAttempt(o) ==
    /\ rt.pc = "attempt"
    /\ \E d \in calculate_delay(rcfg, rt.attempt) :
          rt' = IF o = "ok" THEN on_success(rcfg, rt)
                ELSE on_error(rcfg, excs, rt, o, d)
    /\ outcomes' = Append(outcomes, o)
    /\ slept' = IF rt'.pc = "sleep" THEN slept + 1 ELSE slept
    /\ UNCHANGED <<rcfg, excs, calc>>
    /\ UNCHANGED notRetry

\* line 150 returns: the loop goes on to the next attempt
RetryWake ==
    /\ rt.pc = "sleep"
    /\ rt' = next_attempt(rcfg, rt)
    /\ UNCHANGED <<rcfg, excs, outcomes, slept, calc>>
    /\ UNCHANGED notRetry

NextRetry ==
    \/ \E o \in Invocations : RetryAttempt(o)
    \/ RetryWake

SpecRetry == InitRetry /\ [][NextRetry]_vars

\* a manager configured with one of DelayConfigs, on which calculate_delay
\* is called
InitDelay ==
    /\ rcfg \in DelayConfigs
    /\ excs = [given |-> FALSE, types |-> {}]
    /\ rt = NewRun
    /\ outcomes = <<>>
    /\ slept = 0
    /\ calc = NoCalc
    /\ BreakerIdle
    /\ LimiterIdle
    /\ BulkheadIdle
    /\ TimeoutIdle
    /\ ManagerIdle

\* calculate_delay(attempt) is called and returns
CalculateDelay(attempt) ==
    /\ \E v \in calculate_delay(rcfg, attempt) :
          calc' = [attempt |-> attempt, delay |-> v]
    /\ UNCHANGED <<rcfg, excs, rt, outcomes, slept>>
    /\ UNCHANGED notRetry

NextDelay == \E attempt \in 0..(MaxAttempts + 1) : CalculateDelay(attempt)

SpecDelay == InitDelay /\ [][NextDelay]_vars

\* ------------------------------------------------------- RateLimiter actions

\* bounds of the exploration, per limiter
MaxAcquires == rl.max_requests + 2 + AcquireSlack
MaxLimiterTime == rl.time_window + WindowSlack

InitLimiter ==
    /\ rl \in Limiters
    /\ acqs = <<>>
    /\ wp = [c \in Callers |-> NoWait]
    /\ BreakerIdle
    /\ RetryIdle
    /\ BulkheadIdle
    /\ TimeoutIdle
    /\ ManagerIdle

\* a task calls acquire(): lines 338-350 run under the lock, without a
\* suspension point
Acquire ==
    /\ Len(acqs) < MaxAcquires
    /\ rl' = acquire(rl, now)
    /\ acqs' = Append(acqs, [at |-> now, ok |-> acquire_result(rl, now)])
    /\ UNCHANGED <<now, wp>>
    /\ UNCHANGED notLimiter

\* time.time() advances by one tick
LimiterTick ==
    /\ now < MaxLimiterTime
    /\ now' = now + 1
    /\ UNCHANGED rlVars
    /\ UNCHANGED notLimiter

NextLimiter ==
    \/ Acquire
    \/ LimiterTick

SpecLimiter == InitLimiter /\ [][NextLimiter]_vars

\* ----------------------------------------------------- wait_for_permit actions

\* the clock is followed until every caller can have had a window of its own
MaxWaitTime == StartSlack + NumWaiters * MaxWindow

InitWait ==
    /\ rl \in {NewLimiter(r, w) : r \in 1..MaxRequests, w \in 1..MaxWindow}
    /\ acqs = <<>>
    /\ wp = [c \in Callers |-> NoWait]
    /\ BreakerIdle
    /\ RetryIdle
    /\ BulkheadIdle
    /\ TimeoutIdle
    /\ ManagerIdle

\* caller c can run: it is about to call acquire(), or its sleep is over
Ready(c) ==
    \/ wp[c].pc = "polling"
    \/ wp[c].pc = "sleeping" /\ now >= wp[c].wake

\* caller c calls wait_for_permit
WaitCall(c) ==
    /\ wp[c].pc = "idle"
    /\ now <= StartSlack
    /\ wp' = [wp EXCEPT ![c].pc = "polling"]
    /\ UNCHANGED <<now, rl, acqs>>
    /\ UNCHANGED notLimiter

\* line 354: caller c calls acquire() and leaves the loop or goes to sleep
WaitPoll(c) ==
    /\ wp[c].pc = "polling"
    /\ rl' = acquire(rl, now)
    /\ LET ok == acquire_result(rl, now)
       IN  wp' = [wp EXCEPT ![c].pc = after_poll(ok),
                            ![c].wake = IF after_poll(ok) = "sleeping"
                                        THEN now + PollInterval ELSE 0,
                            ![c].polls = @ + 1,
                            ![c].got = IF ok THEN @ + 1 ELSE @]
    /\ UNCHANGED <<now, acqs>>
    /\ UNCHANGED notLimiter

\* line 355: the sleep of caller c is over
WaitWake(c) ==
    /\ wp[c].pc = "sleeping"
    /\ now >= wp[c].wake
    /\ wp' = [wp EXCEPT ![c].pc = "polling", ![c].wake = 0]
    /\ UNCHANGED <<now, rl, acqs>>
    /\ UNCHANGED notLimiter

\* time.time() advances by one tick, once no caller can run: the steps of a
\* task take no time on the scale of the poll interval
WaitTick ==
    /\ now < MaxWaitTime
    /\ \A c \in Callers : ~Ready(c)
    /\ now' = now + 1
    /\ UNCHANGED rlVars
    /\ UNCHANGED notLimiter

NextWait ==
    \/ \E c \in Callers : WaitCall(c)
    \/ \E c \in Callers : WaitPoll(c)
    \/ \E c \in Callers : WaitWake(c)
    \/ WaitTick

\* time advances, and the event loop runs every caller that can run;
\* nothing obliges a caller to call wait_for_permit
FairWait ==
    /\ WF_vars(WaitTick)
    /\ \A c \in Callers : WF_vars(WaitPoll(c)) /\ WF_vars(WaitWake(c))

SpecWait == InitWait /\ [][NextWait]_vars /\ FairWait

\* ---------------------------------------------------------- Bulkhead actions

\* bound of the exploration, per bulkhead
MaxEntries == bh.max_concurrent + 2 + EntrySlack

InitBulkhead ==
    /\ bh \in Bulkheads
    /\ bpc = [t \in Tasks |-> "out"]
    /\ entries = 0
    /\ lastExit = "none"
    /\ BreakerIdle
    /\ RetryIdle
    /\ LimiterIdle
    /\ TimeoutIdle
    /\ ManagerIdle

\* task t calls semaphore.acquire(): with a permit free it goes through
\* lines 376-379 to the yield, otherwise it waits in line 376
EnterStep(t) ==
    IF permit_free(bh)
    THEN /\ bh' = enter_body(bh)
         /\ bpc' = [bpc EXCEPT ![t] = "inside"]
    ELSE /\ bh' = enqueue(bh, t)
         /\ bpc' = [bpc EXCEPT ![t] = "waiting"]

\* task t enters "async with bulkhead.acquire()"
BulkheadEnter(t) ==
    /\ bpc[t] = "out"
    /\ entries < MaxEntries
    /\ entries' = entries + 1
    /\ EnterStep(t)
    /\ UNCHANGED lastExit
    /\ UNCHANGED notBulkhead

\* the waiting task t, to which a release handed its permit, runs again:
\* lines 376-379
BulkheadResume(t) ==
    /\ bpc[t] = "waiting"
    /\ woken(bh, t)
    /\ bh' = resume_body(bh, t)
    /\ bpc' = [bpc EXCEPT ![t] = "inside"]
    /\ UNCHANGED <<entries, lastExit>>
    /\ UNCHANGED notBulkhead

\* task t is cancelled while it waits in line 376: CancelledError leaves
\* acquire() before the try
BulkheadCancelWaiting(t) ==
    /\ bpc[t] = "waiting"
    /\ bh' = cancel_waiting(bh, t)
    /\ bpc' = [bpc EXCEPT ![t] = "out"]
    /\ lastExit' = "cancelled waiting"
    /\ UNCHANGED entries
    /\ UNCHANGED notBulkhead

\* task t leaves the body by path how: lines 383-386
BulkheadExit(t, how) ==
    /\ bpc[t] = "inside"
    /\ bh' = leave_body(bh, how)
    /\ bpc' = [bpc EXCEPT ![t] = "out"]
    /\ lastExit' = how
    /\ UNCHANGED entries
    /\ UNCHANGED notBulkhead

NextBulkhead ==
    \/ \E t \in Tasks : BulkheadEnter(t)
    \/ \E t \in Tasks : BulkheadResume(t)
    \/ \E t \in Tasks : BulkheadCancelWaiting(t)
    \/ \E t \in Tasks, how \in ExitPaths : BulkheadExit(t, how)

SpecBulkhead == InitBulkhead /\ [][NextBulkhead]_vars

\* task t enters "async with bulkhead.acquire()", any number of times
BulkheadEnterAgain(t) ==
    /\ bpc[t] = "out"
    /\ EnterStep(t)
    /\ UNCHANGED <<entries, lastExit>>
    /\ UNCHANGED notBulkhead

NextBulkheadFair ==
    \/ \E t \in Tasks : BulkheadEnterAgain(t)
    \/ \E t \in Tasks : BulkheadResume(t)
    \/ \E t \in Tasks : BulkheadCancelWaiting(t)
    \/ \E t \in Tasks, how \in ExitPaths : BulkheadExit(t, how)

\* the event loop runs a task whose future is done, and every task in the
\* body leaves it; nothing obliges a task to enter or to be cancelled
FairBulkhead ==
    \A t \in Tasks :
        /\ WF_vars(BulkheadResume(t))
        /\ WF_vars(\E how \in ExitPaths : BulkheadExit(t, how))

SpecBulkheadFair ==
    InitBulkhead /\ [][NextBulkheadFair]_vars /\ FairBulkhead

\* ---------------------------------------------------- TimeoutManager actions

MaxTimeoutTime == MaxTimeout + DeadlineSlack

InitTimeout ==
    /\ tm \in {NewTimeoutManager(d) : d \in 1..MaxTimeout}
    /\ BreakerIdle
    /\ RetryIdle
    /\ LimiterIdle
    /\ BulkheadIdle
    /\ ManagerIdle

\* execute_with_timeout(func, timeout) is called: lines 416-427 up to the
\* await
TimeoutCall(timeout) ==
    /\ tm.pc = "idle"
    /\ tm' = [tm EXCEPT !.pc = "running",
                        !.requested = timeout,
                        !.started = now,
                        !.deadline = now + effective_timeout(tm, timeout)]
    /\ UNCHANGED now
    /\ UNCHANGED notTimeout

\* the operation ends with o before the deadline: lines 429-438
TimeoutOperationEnds(o) ==
    /\ tm.pc = "running"
    /\ now < tm.deadline
    /\ tm' = [tm EXCEPT !.pc = IF o = "ok" THEN "returned" ELSE "raised",
                        !.op = o,
                        !.result = timeout_result(o),
                        !.ended = now]
    /\ UNCHANGED now
    /\ UNCHANGED notTimeout

\* the deadline passes: asyncio.wait_for cancels the operation and awaits
\* its end
TimeoutExpires ==
    /\ tm.pc = "running"
    /\ now >= tm.deadline
    /\ tm' = [tm EXCEPT !.pc = "cancelling"]
    /\ UNCHANGED now
    /\ UNCHANGED notTimeout

\* the cancelled operation has ended: wait_for raises asyncio.TimeoutError,
\* lines 431-438 raise TimeoutException
TimeoutCancelled ==
    /\ tm.pc = "cancelling"
    /\ tm' = [tm EXCEPT !.pc = "raised",
                        !.result = "TimeoutException",
                        !.ended = now]
    /\ UNCHANGED now
    /\ UNCHANGED notTimeout

\* the clock advances by one tick
TimeoutTick ==
    /\ now < MaxTimeoutTime
    /\ now' = now + 1
    /\ UNCHANGED tm
    /\ UNCHANGED notTimeout

NextTimeout ==
    \/ \E timeout \in TimeoutArgs : TimeoutCall(timeout)
    \/ \E o \in OperationEnds : TimeoutOperationEnds(o)
    \/ TimeoutExpires
    \/ TimeoutCancelled
    \/ TimeoutTick

SpecTimeout == InitTimeout /\ [][NextTimeout]_vars

\* ------------------------------------------------- ResilienceManager actions

InitManager ==
    /\ ManagerIdle
    /\ BreakerIdle
    /\ RetryIdle
    /\ LimiterIdle
    /\ BulkheadIdle
    /\ TimeoutIdle

\* no call of execute_with_resilience is running, and get_statistics, the
\* last call explored, has not been made
Quiet == call.pc \in {"idle", "done"} /\ ~stats.called

\* create_circuit_breaker(name, c), lines 457-465
CreateCircuitBreaker(c) ==
    /\ Quiet
    /\ calls < MaxManagerCalls
    /\ calls' = calls + 1
    /\ registry' = [registry EXCEPT !["circuit_breakers"] = @ + 1]
    /\ cb' = NewBreaker
    /\ cfg' = c
    /\ UNCHANGED <<now, rl, bh, call, trace, stats>>
    /\ UNCHANGED notManager

\* create_rate_limiter(name, max_requests, time_window), lines 467-476
CreateRateLimiter(l) ==
    /\ Quiet
    /\ calls < MaxManagerCalls
    /\ calls' = calls + 1
    /\ registry' = [registry EXCEPT !["rate_limiters"] = @ + 1]
    /\ rl' = l
    /\ UNCHANGED <<now, cb, cfg, bh, call, trace, stats>>
    /\ UNCHANGED notManager

\* create_bulkhead(name, max_concurrent), lines 478-486
CreateBulkhead(b) ==
    /\ Quiet
    /\ calls < MaxManagerCalls
    /\ calls' = calls + 1
    /\ registry' = [registry EXCEPT !["bulkheads"] = @ + 1]
    /\ bh' = b
    /\ UNCHANGED <<now, cb, cfg, rl, call, trace, stats>>
    /\ UNCHANGED notManager

\* execute_with_resilience(func, ...) is called with the arguments a
ManagerCall(a) ==
    /\ Quiet
    /\ calls < MaxManagerCalls
    /\ calls' = calls + 1
    /\ call' = [NoCall EXCEPT !.pc = "rate_limit", !.args = a, !.attempt = 1,
                              !.before = bh.active_operations]
    /\ trace' = <<>>
    /\ UNCHANGED <<now, registry, cb, cfg, rl, bh, stats>>
    /\ UNCHANGED notManager

\* lines 513-517: the rate limiter, when one applies, is asked for a permit
\* (wait_for_permit, lines 352-355); refused, the call sleeps 0.1 s
ManagerRateLimit ==
    /\ call.pc = "rate_limit"
    /\ ~stats.called
    /\ IF applies(call.args.rate_limiter_name, registry["rate_limiters"])
       THEN /\ rl' = acquire(rl, now)
            /\ IF acquire_result(rl, now)
               THEN /\ call' = [call EXCEPT !.pc = "bulkhead",
                                            !.granted = now]
                    /\ trace' = Append(trace, "rate_permit")
               ELSE /\ call' = [call EXCEPT !.pc = "rate_sleep",
                                            !.wake = now + 1]
                    /\ UNCHANGED trace
       ELSE /\ call' = [call EXCEPT !.pc = "bulkhead"]
            /\ UNCHANGED <<rl, trace>>
    /\ UNCHANGED <<now, registry, cb, cfg, bh, calls, stats>>
    /\ UNCHANGED notManager

\* line 355: asyncio.sleep(0.1) returns
ManagerRateWake ==
    /\ call.pc = "rate_sleep"
    /\ ~stats.called
    /\ now >= call.wake
    /\ call' = [call EXCEPT !.pc = "rate_limit", !.wake = 0]
    /\ UNCHANGED <<now, registry, cb, cfg, rl, bh, trace, calls, stats>>
    /\ UNCHANGED notManager

\* lines 519-523: the bulkhead, when one applies, is entered
ManagerBulkhead ==
    /\ call.pc = "bulkhead"
    /\ ~stats.called
    /\ IF applies(call.args.bulkhead_name, registry["bulkheads"])
       THEN /\ permit_free(bh)
            /\ bh' = enter_body(bh)
            /\ call' = [call EXCEPT !.pc = "protected", !.holds = TRUE]
            /\ trace' = Append(trace, "bulkhead_acquired")
       ELSE /\ call' = [call EXCEPT !.pc = "protected"]
            /\ UNCHANGED <<bh, trace>>
    /\ UNCHANGED <<now, registry, cb, cfg, rl, calls, stats>>
    /\ UNCHANGED notManager

\* the call ends with result: the bulkhead, if entered, is left (line 523,
\* the finally clause of Bulkhead.acquire) and the result goes to the caller
\* (line 536 re-raises)
ManagerEnds(events, result, value, o, n) ==
    /\ call' = [call EXCEPT !.pc = "done", !.holds = FALSE,
                            !.result = result, !.value = value,
                            !.last = o, !.invoked = n]
    /\ IF call.holds
       THEN /\ bh' = leave_body(bh, IF result = "returned" THEN "return"
                                    ELSE "exception")
            /\ trace' = trace \o events \o <<"bulkhead_released">>
       ELSE /\ bh' = bh
            /\ trace' = trace \o events

\* lines 551-554: the call goes through CircuitBreaker.call, which refuses
\* it or invokes the operation, which ends with o
ManagerThroughBreaker(o) ==
    IF gate_rejects(cb, cfg, now)
    THEN /\ cb' = gate_reject(cb, now)
         /\ ManagerEnds(<<"gate", "rejected">>, "CircuitBreakerOpenException",
                        0, call.last, call.invoked)
    ELSE /\ cb' = record_outcome(gate_admit(cb), cfg, now, o)
         /\ ManagerEnds(<<"gate", "invoked">>, call_result(o),
                        IF o = "ok" THEN call.invoked + 1 ELSE 0,
                        o, call.invoked + 1)

\* lines 557-562: an attempt of execute_with_retry around
\* execute_with_timeout; the operation ends with o
ManagerRetryAttempt(o) ==
    LET kind == unguarded_result(o)
        c == [max_attempts |-> call.args.retry]
    IN  /\ cb' = cb
        /\ IF retried(kind) /\ ~is_last_attempt(c, call.attempt)
           THEN /\ call' = [call EXCEPT !.pc = "retry_sleep", !.last = o,
                                        !.invoked = @ + 1]
                /\ trace' = Append(trace, "invoked")
                /\ bh' = bh
           ELSE ManagerEnds(<<"invoked">>, kind,
                            IF o = "ok" THEN call.invoked + 1 ELSE 0,
                            o, call.invoked + 1)

\* lines 563-564: execute_with_timeout alone; the operation ends with o
ManagerSingleAttempt(o) ==
    /\ cb' = cb
    /\ ManagerEnds(<<"invoked">>, unguarded_result(o),
                   IF o = "ok" THEN call.invoked + 1 ELSE 0,
                   o, call.invoked + 1)

\* _execute_with_circuit_breaker_and_retry, lines 540-564, for an operation
\* that ends with o when it is invoked
ManagerInvoke(o) ==
    /\ call.pc = "protected"
    /\ ~stats.called
    /\ IF applies(call.args.circuit_breaker_name, registry["circuit_breakers"])
       THEN ManagerThroughBreaker(o)
       ELSE IF call.args.retry # 0
       THEN ManagerRetryAttempt(o)
       ELSE ManagerSingleAttempt(o)
    /\ UNCHANGED <<now, registry, cfg, rl, calls, stats>>
    /\ UNCHANGED notManager

\* line 150: the sleep of execute_with_retry returns, the next attempt begins
ManagerRetryWake ==
    /\ call.pc = "retry_sleep"
    /\ ~stats.called
    /\ call' = [call EXCEPT !.pc = "protected", !.attempt = @ + 1]
    /\ UNCHANGED <<now, registry, cb, cfg, rl, bh, trace, calls, stats>>
    /\ UNCHANGED notManager

\* get_statistics(), lines 566-590
GetStatistics ==
    /\ ~stats.called
    /\ stats' = get_statistics(registry, cb, rl, bh)
    /\ cb' = after_get_stats(cb)
    /\ UNCHANGED <<now, registry, cfg, rl, bh, call, trace, calls>>
    /\ UNCHANGED notManager

\* the clock advances by one tick
ManagerTick ==
    /\ ~stats.called
    /\ now < MaxManagerTime
    /\ now' = now + 1
    /\ UNCHANGED <<registry, cb, cfg, rl, bh, call, trace, calls, stats>>
    /\ UNCHANGED notManager

NextManager ==
    \/ \E c \in ManagerBreakerConfigs : CreateCircuitBreaker(c)
    \/ \E l \in ManagerLimiters : CreateRateLimiter(l)
    \/ \E b \in ManagerBulkheads : CreateBulkhead(b)
    \/ \E a \in ManagerArgs : ManagerCall(a)
    \/ ManagerRateLimit
    \/ ManagerRateWake
    \/ ManagerBulkhead
    \/ \E o \in Outcomes : ManagerInvoke(o)
    \/ ManagerRetryWake
    \/ GetStatistics
    \/ ManagerTick

SpecManager == InitManager /\ [][NextManager]_vars

\* ------------------------------------------------------------ step formulas

\* this step is a call refused with CircuitBreakerOpenException
Rejected == lastEv' # lastEv /\ lastEv'.kind = "CircuitBreakerOpenException"

\* this step invokes the operation
Admitted == invocations' = invocations + 1

\* this step is the gate of a call
CallBegins == Rejected \/ Admitted

\* in this step an operation returns and call() records it
Succeeds == succeeded' = succeeded + 1

\* in this step an operation raises an Exception or times out and call()
\* records it
Fails == failed' = failed + 1

\* in this step an operation leaves call() with a BaseException
Escapes == lastEv' # lastEv /\ lastEv'.kind = "BaseException"

\* ------------------------------------------------------------------ claims

\* the whole history is failure_threshold invocations, each ended by an
\* Exception or a timeout
AfterThresholdFailures ==
    /\ InFlight = 0
    /\ invocations = cfg.failure_threshold
    /\ failed = cfg.failure_threshold

\* C1 (threshold): for every failure_threshold N, once N calls on a new
\* breaker have failed and nothing else was invoked, the state is OPEN, and
\* every call begun before recovery_timeout has passed since the N-th failure
\* is refused with CircuitBreakerOpenException: the operation is not invoked
\* and the breaker is left as it was.
C1_Threshold ==
    /\ [](AfterThresholdFailures => cb.state = OPEN)
    /\ [][(/\ AfterThresholdFailures
           /\ now - openedAt < cfg.recovery_timeout
           /\ CallBegins)
          => (Rejected /\ ~Admitted /\ cb' = cb)]_vars

C1_Witness ==
    /\ AfterThresholdFailures
    /\ cfg.failure_threshold = MaxFailureThreshold
    /\ cb.state = OPEN
    /\ lastEv.kind = "CircuitBreakerOpenException"

C3_HalfOpenClosing ==
    [][(Succeeds /\ lastEv'.from = HALF_OPEN) =>
          IF probeSucc' >= cfg.success_threshold
          THEN /\ cb'.state = CLOSED
               /\ cb'.failure_count = 0
               /\ cb'.success_count = 0
          ELSE cb'.state = HALF_OPEN
      ]_vars

C3_Witness ==
    /\ lastEv.kind = "returned"
    /\ lastEv.from = HALF_OPEN
    /\ cfg.success_threshold = MaxSuccessThreshold
    /\ probeSucc = cfg.success_threshold
    /\ cb.state = CLOSED

\* C4 (half-open re-opening): a call that fails (Exception or timeout)
\* while the breaker is HALF_OPEN leaves it OPEN with last_failure_time = now
\* and success_count = 0, whatever success_threshold is and however many
\* successes the episode had.
C4_HalfOpenReopening ==
    [][(Fails /\ lastEv'.from = HALF_OPEN) =>
          /\ cb'.state = OPEN
          /\ cb'.last_failure_time = now
          /\ cb'.success_count = 0
      ]_vars

\* a probe failed after an earlier probe of the same episode had succeeded
C4_Witness ==
    /\ lastEv.kind \in FailureKinds
    /\ lastEv.from = HALF_OPEN
    /\ probeSucc >= 1
    /\ cb.state = OPEN

\* C5 (single probe): while a call that the gate admitted from OPEN (the
\* half-open probe) awaits its operation, every other call is refused: no
\* further operation is invoked before the probe's outcome is recorded.
C5_SingleProbe ==
    [][inflight[OPEN] > 0 => ~Admitted]_vars

\* the scenario so far: the operation was invoked by three calls that failed
\* and then by s calls that succeeded, one call at a time
ScenarioAfter(s) ==
    /\ sequential
    /\ InFlight = 0
    /\ failed = 3
    /\ succeeded = s
    /\ succStreak = s
    /\ invocations = 3 + s

\* C6 (end-to-end scenario, failure_threshold = 3, recovery_timeout = 1 s,
\* success_threshold = 2): after three failed calls the breaker is OPEN and a
\* fourth call (made within the second) is refused; 1.1 s after the third
\* failure a call is not refused; after one successful call the state is
\* HALF_OPEN with success_count = 1; after one more it is CLOSED.
C6_Scenario ==
    /\ [](ScenarioAfter(0) => cb.state = OPEN)
    /\ [][(ScenarioAfter(0) /\ now - openedAt < 10 /\ CallBegins)
            => (Rejected /\ ~Admitted)]_vars
    /\ []((ScenarioAfter(0) /\ now - openedAt = 11)
            => ~gate_rejects(cb, cfg, now))
    /\ [](ScenarioAfter(1) => (cb.state = HALF_OPEN /\ cb.success_count = 1))
    /\ [](ScenarioAfter(2) => cb.state = CLOSED)

\* the scenario run to its end, both successful calls made 1.1 s after the
\* third failure
C6_Witness ==
    /\ ScenarioAfter(2)
    /\ cb.state = CLOSED
    /\ now = openedAt + 11
    /\ cb.last_success_time = now
    /\ lastEv = Event("returned", HALF_OPEN)

\* C7: in every reachable state, state = OPEN implies that last_failure_time
\* is set (not None).
C7_OpenHasFailureTime ==
    cb.state = OPEN => cb.last_failure_time # NoTime

\* the breaker OPEN while an earlier call is still in flight
C7_Witness ==
    /\ cb.state = OPEN
    /\ InFlight > 0
    /\ cb.last_failure_time = now
    /\ now > 0

\* C8 (only consecutive failures open a closed breaker): a success recorded
\* while CLOSED resets failure_count to 0, and the breaker goes from CLOSED to
\* OPEN only in a step that records a failure and makes the run of failures
\* since the last success at least failure_threshold long.
C8_ConsecutiveFailures ==
    [][/\ (Succeeds /\ lastEv'.from = CLOSED) => cb'.failure_count = 0
       /\ (cb.state = CLOSED /\ cb'.state = OPEN)
            => (Fails /\ streak' >= cfg.failure_threshold)
      ]_vars

\* the breaker opened from CLOSED although more than failure_threshold calls
\* failed before: a success in between had reset the count
C8_Witness ==
    /\ cb.state = OPEN
    /\ lastEv.kind \in FailureKinds
    /\ lastEv.from = CLOSED
    /\ probeSucc = 0
    /\ succeeded >= 1
    /\ failed > cfg.failure_threshold
    /\ streak = cfg.failure_threshold
    /\ cfg.failure_threshold = MaxFailureThreshold

\* C9: every call to call(), whether it returns, fails, times out or is
\* refused because the breaker is OPEN, increases total_requests by one.
C9_EveryCallCounted ==
    [][(Rejected \/ Succeeds \/ Fails)
          => cb'.total_requests = cb.total_requests + 1]_vars

\* C10 as claimed: every way an invoked operation fails inside call(), the
\* operation raising any exception or overrunning config.timeout, is recorded
\* as one failure (total_failures + 1, last_failure_time = now) before the
\* error reaches the caller.
C10_EveryFailureRecorded ==
    [][(Fails \/ Escapes)
          => /\ cb'.total_failures = cb.total_failures + 1
             /\ cb'.last_failure_time = now]_vars

\* C10 as amended: every operation that raises an Exception or overruns
\* config.timeout is recorded as exactly one failure: total_failures and
\* total_requests + 1, total_successes unchanged, last_failure_time = now, and
\* the state OPEN when the failure came in HALF_OPEN or brought failure_count
\* to failure_threshold.
C10_ExceptionsRecorded ==
    [][Fails
          => /\ cb'.total_failures = cb.total_failures + 1
             /\ cb'.total_requests = cb.total_requests + 1
             /\ cb'.total_successes = cb.total_successes
             /\ cb'.last_failure_time = now
             /\ (\/ lastEv'.from = HALF_OPEN
                 \/ cb'.failure_count >= cfg.failure_threshold)
                   => cb'.state = OPEN]_vars

\* a timeout and an Exception, both recorded
C10_Witness ==
    /\ lastEv.kind = "CircuitBreakerTimeoutException"
    /\ failed = 2
    /\ cb.total_failures = 2
    /\ cb.last_failure_time = now
    /\ now > 0

\* ------------------------------------------------- claims on the RetryManager

\* execute_with_retry has returned or raised
Finished == rt.pc \in {"returned", "raised"}

\* an error of type ty is retryable: it is an Exception, and either no list
\* of exception types was given or it is in the (non-empty) list given
RetryableError(ty) ==
    /\ ty \in ErrorTypes
    /\ \/ ~excs.given
       \/ ty \in excs.types

\* every invocation so far raised a retryable error
AllRetryable == \A i \in 1..Len(outcomes) : RetryableError(outcomes[i])

\* C11: when every invocation of the operation raises a retryable error,
\* execute_with_retry invokes it exactly max_attempts times, sleeps exactly
\* max_attempts - 1 times (never after the last attempt) and raises the error
\* of the last invocation.
C11_Exhaustion ==
    AllRetryable =>
        /\ Len(outcomes) <= rcfg.max_attempts
        /\ slept <= rcfg.max_attempts - 1
        /\ Finished =>
            /\ Len(outcomes) = rcfg.max_attempts
            /\ slept = rcfg.max_attempts - 1
            /\ rt.pc = "raised"
            /\ rt.raised = Error(outcomes[rcfg.max_attempts],
                                 rcfg.max_attempts)

C11_Witness ==
    /\ Finished
    /\ AllRetryable
    /\ excs.given
    /\ rcfg.max_attempts = MaxAttempts
    /\ outcomes[1] # outcomes[MaxAttempts]

\* C12: when the operation first returns on its j-th invocation,
\* execute_with_retry has invoked it exactly j times and returns the result of
\* that invocation, and there is no invocation and no sleep afterwards.
C12_StopsAtSuccess ==
    /\ [](\A j \in 1..Len(outcomes) :
            outcomes[j] = "ok" =>
                /\ j <= rcfg.max_attempts
                /\ Len(outcomes) = j
                /\ rt.pc = "returned"
                /\ rt.returned = j)
    /\ [][rt.pc = "returned" =>
            /\ outcomes' = outcomes
            /\ slept' = slept
            /\ rt' = rt]_vars

C12_Witness ==
    /\ rt.pc = "returned"
    /\ rt.returned = 2
    /\ rcfg.max_attempts > 2
    /\ slept = 1

\* C13: when a non-empty list of retryable exception types is given and the
\* i-th invocation raises an error outside it, execute_with_retry raises that
\* same error at once: i invocations in all, no sleep after the failing
\* attempt and nothing afterwards.
C13_NonRetryablePropagates ==
    /\ [](\A i \in 1..Len(outcomes) :
            (/\ excs.given
             /\ excs.types # {}
             /\ outcomes[i] # "ok"
             /\ outcomes[i] \notin excs.types) =>
                /\ Len(outcomes) = i
                /\ slept = i - 1
                /\ rt.pc = "raised"
                /\ rt.raised = Error(outcomes[i], i))
    /\ [][rt.pc = "raised" =>
            /\ outcomes' = outcomes
            /\ slept' = slept
            /\ rt' = rt]_vars

C13_Witness ==
    /\ excs.given
    /\ excs.types = {"ValueError"}
    /\ rt.pc = "raised"
    /\ rt.raised = Error("ConnectionError", 2)
    /\ rcfg.max_attempts > 2

\* C14: with an empty list of retryable exception types (exceptions=[]) every
\* error is retryable, as with exceptions=None: an operation that always
\* raises is invoked max_attempts times.
C14_EmptyListRetriesAll ==
    (/\ excs.given
     /\ excs.types = {}
     /\ Finished
     /\ \A i \in 1..Len(outcomes) : outcomes[i] \in ErrorTypes) =>
        Len(outcomes) = rcfg.max_attempts

\* the values of the delay before jitter, in ticks, as the formulas of the
\* strategies give them
FormulaDelays(c, a) ==
    CASE c.strategy = FIXED -> {c.base_delay}
      [] c.strategy = EXPONENTIAL ->
            {c.base_delay * Pow(c.backoff_multiplier, a - 1)}
      [] c.strategy = LINEAR -> {c.base_delay * a}
      [] c.strategy = RANDOM ->
            {v \in 0..(MaxBaseDelay + 1) * (MaxAttempts + 2) :
                c.base_delay <= v /\ v <= c.base_delay * a}

\* the factors in [0.5, 1.5] the delay is multiplied by, in halves; without
\* jitter the factor is 1
FormulaFactors(c) == IF c.jitter THEN 1..3 ELSE {2}

\* C15: for attempt >= 1 calculate_delay returns min(d * f, max_delay), where
\* d is base_delay (FIXED), base_delay * backoff_multiplier^(attempt-1)
\* (EXPONENTIAL), base_delay * attempt (LINEAR) or a value in
\* [base_delay, base_delay * attempt] (RANDOM), and f is a factor in
\* [0.5, 1.5] with jitter and 1 without.
C15_DelayFormula ==
    calc.attempt >= 1 =>
        \E d \in FormulaDelays(rcfg, calc.attempt), f \in FormulaFactors(rcfg) :
            calc.delay = Min(d * f, rcfg.max_delay * HalfTicks)

C15_Witness ==
    /\ calc.attempt = 3
    /\ rcfg.strategy = EXPONENTIAL
    /\ rcfg.jitter
    /\ rcfg.base_delay = 1
    /\ rcfg.backoff_multiplier = 2
    /\ rcfg.max_delay = 3
    /\ calc.delay = 4

\* C16: with the EXPONENTIAL strategy, backoff_multiplier > 1, base_delay >= 0
\* and no jitter, calculate_delay(a) <= calculate_delay(a + 1) for a >= 1;
\* and with every strategy, with or without jitter, calculate_delay(a) <=
\* max_delay.
C16_MonotoneAndCapped ==
    /\ [](calc.attempt >= 1 => calc.delay <= rcfg.max_delay * HalfTicks)
    /\ [][(/\ rcfg.strategy = EXPONENTIAL
           /\ rcfg.backoff_multiplier > 1
           /\ rcfg.base_delay >= 0
           /\ ~rcfg.jitter
           /\ calc.attempt >= 1
           /\ calc'.attempt = calc.attempt + 1) =>
              calc.delay <= calc'.delay]_vars

C16_Witness ==
    /\ calc.attempt = 2
    /\ rcfg.strategy = EXPONENTIAL
    /\ ~rcfg.jitter
    /\ rcfg.base_delay = 2
    /\ rcfg.backoff_multiplier = 2
    /\ rcfg.max_delay = 3
    /\ calc.delay = 6

\* -------------------------------------------------- claims on the RateLimiter

\* the first k acquire() calls were issued within a span shorter than
\* time_window
WithinSpan(k) ==
    /\ k <= Len(acqs)
    /\ \A i \in 1..k : acqs[i].at - acqs[1].at < rl.time_window

\* C17: on a new limiter, max_requests acquire() calls issued within a span
\* shorter than time_window all return True, the next one within that span
\* returns False, and an acquire() issued time_window (or more) after the
\* earliest granted request returns True.
C17_RateBound ==
    /\ \A k \in 1..Len(acqs) :
          (k <= rl.max_requests /\ WithinSpan(k)) => acqs[k].ok
    /\ \A k \in 1..Len(acqs) :
          (k = rl.max_requests + 1 /\ WithinSpan(k)) => ~acqs[k].ok
    /\ \A k \in 1..Len(acqs) :
          (/\ rl.max_requests >= 1
           /\ k = rl.max_requests + 2
           /\ WithinSpan(k - 1)
           /\ acqs[k].at - acqs[1].at >= rl.time_window) => acqs[k].ok

C17_Witness ==
    /\ rl.max_requests = 2
    /\ rl.time_window = 2
    /\ Len(acqs) = 4
    /\ acqs[2].at = 1
    /\ ~acqs[3].ok
    /\ acqs[3].at = 1
    /\ acqs[4].at = 2
    /\ acqs[4].ok

\* the number of requests granted at an instant in the set T
GrantedIn(T) == Cardinality({i \in 1..Len(acqs) : acqs[i].ok /\ acqs[i].at \in T})

Inside == {t \in Tasks : bpc[t] = "inside"}

\* the number of permits handed to waiting tasks that have not run yet
Handed(b) == Cardinality({i \in DOMAIN b.waiters : b.waiters[i].done})

\* C19: under every interleaving the number of tasks inside the body of
\* Bulkhead.acquire() is at most max_concurrent, and
\* 0 <= active_operations <= max_concurrent.
C19_BulkheadBound ==
    /\ Cardinality(Inside) <= bh.max_concurrent
    /\ 0 <= bh.active_operations
    /\ bh.active_operations <= bh.max_concurrent

C19_Witness ==
    /\ bh.max_concurrent = 2
    /\ Cardinality(Inside) = 2
    /\ \E t \in Tasks : bpc[t] = "waiting"

\* C20: whenever a task that holds a permit leaves the body, by return,
\* exception or cancellation, active_operations goes down by one and one
\* permit goes back to the semaphore (to its counter, or to the waiting task
\* the release wakes); once no task holds a permit, active_operations is 0
\* and all max_concurrent permits are free.
C20_ReleaseOnEveryPath ==
    /\ []((Inside = {} /\ Handed(bh) = 0) =>
            /\ bh.active_operations = 0
            /\ bh.semaphore = bh.max_concurrent)
    /\ [][\A t \in Tasks :
            (bpc[t] = "inside" /\ bpc'[t] # "inside") =>
                /\ bh'.active_operations = bh.active_operations - 1
                /\ bh'.semaphore + Handed(bh') =
                      bh.semaphore + Handed(bh) + 1]_vars

C20_Witness ==
    /\ lastExit = "cancelled"
    /\ Inside = {}
    /\ entries >= 2
    /\ \E t \in Tasks : bpc[t] = "waiting"

\* C21: cancelling a task that waits for a bulkhead permit leaks nothing: the
\* cancelled task has not raised active_operations and keeps no permit, and
\* the permits free plus those held by the tasks inside or handed to tasks
\* still waiting number max_concurrent.
C21_CancelledWaiterLeaksNothing ==
    /\ [](/\ bh.semaphore + Handed(bh) + Cardinality(Inside)
               = bh.max_concurrent
          /\ bh.active_operations = Cardinality(Inside)
          /\ \A i \in DOMAIN bh.waiters :
                bpc[bh.waiters[i].task] = "waiting")
    /\ [][\A t \in Tasks :
            (bpc[t] = "waiting" /\ bpc'[t] = "out") =>
                /\ bh'.active_operations = bh.active_operations
                /\ bh'.semaphore + Handed(bh') = bh.semaphore + Handed(bh)
                /\ \A i \in DOMAIN bh'.waiters : bh'.waiters[i].task # t
               ]_vars

C21_Witness ==
    /\ lastExit = "cancelled waiting"
    /\ bh.max_concurrent = 1
    /\ Cardinality(Inside) = 1
    /\ \E t \in Tasks : bpc[t] = "waiting"

Waiting(t) == bpc[t] = "waiting"

\* C32 as stated: every task that waits in Bulkhead.acquire() gets its
\* permit (or is cancelled), whatever max_concurrent is
C32_EveryWaiterServed ==
    \A t \in Tasks : Waiting(t) ~> ~Waiting(t)

\* C32: with max_concurrent >= 1 and every task in the body leaving it,
\* every task that waits in Bulkhead.acquire() stops waiting, while the
\* other tasks enter and leave any number of times: it gets its permit, or
\* it is cancelled (which nothing obliges to happen)
C32_NoStarvation ==
    \A t \in Tasks :
        (Waiting(t) /\ bh.max_concurrent >= 1) ~> ~Waiting(t)

\* two tasks wait, the permit was handed to the older one and the other
\* stays in the queue behind it
C32_Witness ==
    /\ bh.max_concurrent >= 1
    /\ Len(bh.waiters) = 2
    /\ bh.waiters[1].done
    /\ ~bh.waiters[2].done

\* C39: whenever no task is between being handed a permit and counting its
\* operation, active_operations plus the semaphore's free permits is
\* max_concurrent; and what get_stats reports as active_operations and
\* available_permits never adds up to more than max_concurrent.
C39_StatsWithinCapacity ==
    /\ Handed(bh) = 0 =>
          bh.active_operations + bh.semaphore = bh.max_concurrent
    /\ bulkhead_stats(bh).active_operations
          + bulkhead_stats(bh).available_permits <= bh.max_concurrent

\* a task left the body and its permit was handed to a waiting task that
\* has not run yet: get_stats reports one permit less than max_concurrent
C39_Witness ==
    /\ Handed(bh) = 1
    /\ bh.max_concurrent = 2
    /\ bulkhead_stats(bh).active_operations = 1
    /\ bulkhead_stats(bh).available_permits = 0

\* ----------------------------------------------- claims on the TimeoutManager

\* the deadline the caller asked for: timeout after the call (the default
\* when the argument is None)
RequestedDeadline ==
    tm.started
    + (IF tm.requested = NoTime THEN tm.default_timeout ELSE tm.requested)

\* C30: execute_with_timeout raises TimeoutException when and only when the
\* deadline passes before the operation ends; when the operation ends first
\* its result is returned, or its own error raised, unchanged; and the caller
\* never waits beyond the deadline.
C30_TimeoutBound ==
    tm.pc \in {"returned", "raised"} =>
        /\ tm.result = "TimeoutException" <=> tm.op = "none"
        /\ tm.op # "none" =>
              tm.result = (IF tm.op = "ok" THEN "returned" ELSE tm.op)
        /\ tm.ended <= RequestedDeadline


\* ---------------------------------------------------- ResilienceManager claims

\* the call of execute_with_resilience has ended
Done == call.pc = "done"

\* the call of execute_with_resilience is under way
Running == call.pc \notin {"idle", "done"}

\* the number of times event e stands in the trace of the call
Count(e) == Cardinality({i \in DOMAIN trace : trace[i] = e})

\* the call ended with an exception other than a BaseException
Raised == call.result \notin {"none", "returned", "BaseException"}

\* C22: at most one instance is ever created per name: a create call for a
\* name that already has an instance leaves that instance in place
C22_CreateIsIdempotent ==
    [][\A k \in Maps : registry[k] # 0 => registry'[k] = registry[k]]_vars

\* every name is given and has an instance
AllThreeRegistered ==
    /\ call.args.rate_limiter_name /\ registry["rate_limiters"] # 0
    /\ call.args.bulkhead_name /\ registry["bulkheads"] # 0
    /\ call.args.circuit_breaker_name /\ registry["circuit_breakers"] # 0

InvokedOrder ==
    <<"rate_permit", "bulkhead_acquired", "gate", "invoked",
      "bulkhead_released">>
RejectedOrder ==
    <<"rate_permit", "bulkhead_acquired", "gate", "rejected",
      "bulkhead_released">>
IsPrefix(s, t) == Len(s) <= Len(t) /\ SubSeq(t, 1, Len(s)) = s

\* C23: in a call that names a registered rate limiter, bulkhead and circuit
\* breaker the events come in the order rate permit, bulkhead permit, gate,
\* invocation (or rejection), bulkhead release, and the operation is invoked
\* only with the rate permit granted and the bulkhead permit held
C23_FixedOrder ==
    [][(Running /\ AllThreeRegistered) =>
          /\ IsPrefix(trace', InvokedOrder) \/ IsPrefix(trace', RejectedOrder)
          /\ call'.pc = "done" => trace' \in {InvokedOrder, RejectedOrder}
          /\ call'.invoked > call.invoked =>
                call.holds /\ Count("rate_permit") = 1]_vars
C23_Witness == Done /\ trace = InvokedOrder

\* C24: with a registered circuit breaker and a retry_config, an operation
\* that fails every time is attempted max_attempts times through the gate
C24_RetryWrapsBreaker ==
    (Done /\ Count("gate") > 0 /\ call.args.retry > 0 /\ Raised)
        => Count("gate") = call.args.retry

\* C25: a protection that is named is applied to the call
C25_NamedProtectionApplied ==
    Done =>
        /\ call.args.rate_limiter_name => Count("rate_permit") = 1
        /\ call.args.bulkhead_name => Count("bulkhead_acquired") = 1
        /\ call.args.circuit_breaker_name => Count("gate") >= 1

\* C26: a call ends with CircuitBreakerOpenException exactly when the gate
\* rejected it, the operation was then not invoked, and a call whose
\* operation was invoked never ends with CircuitBreakerOpenException
C26_RejectionDistinguishable ==
    Done =>
        /\ call.result = "CircuitBreakerOpenException" <=> Count("rejected") > 0
        /\ call.result = "CircuitBreakerOpenException" => call.invoked = 0
        /\ call.invoked > 0 => call.result # "CircuitBreakerOpenException"
C26_Witness ==
    /\ Done
    /\ call.result = "CircuitBreakerOpenException"
    /\ call.invoked = 0
    /\ calls >= 3

\* C27: when the failure of the operation is what the call surfaces, the
\* caller receives the operation's own error
C27_OperationErrorPassedThrough ==
    (Done /\ call.last = "error" /\ Raised) => call.result = "OperationError"

\* C28: a call that has ended raised an error or returned a value, and a
\* value returned is the result of the last invocation, which succeeded
C28_NothingDropped ==
    Done =>
        /\ call.result # "none"
        /\ call.result = "returned" =>
              /\ call.invoked >= 1
              /\ call.last = "ok"
              /\ call.value = call.invoked
C28_Witness ==
    Done /\ call.result = "returned" /\ call.invoked = 2 /\ call.value = 2

\* C29: get_statistics returns an entry for every registered name and for
\* no other, each with the current counters of its primitive, and changes
\* no breaker, limiter, bulkhead or registry map
C29_ReadOnlySnapshot ==
    [][stats' # stats =>
          /\ stats'.called
          /\ \A k \in Maps : (stats'[k] # {}) <=> (registry[k] # 0)
          /\ \A e \in stats'.circuit_breakers :
                /\ e.state = cb.state
                /\ e.failure_count = cb.failure_count
                /\ e.success_count = cb.success_count
                /\ e.total_requests = cb.total_requests
                /\ e.total_failures = cb.total_failures
                /\ e.total_successes = cb.total_successes
          /\ \A e \in stats'.rate_limiters :
                e.current_requests = Len(rl.requests)
          /\ \A e \in stats'.bulkheads :
                /\ e.active_operations = bh.active_operations
                /\ e.available_permits = bh.semaphore
          /\ UNCHANGED <<registry, cb, cfg, rl, bh>>]_vars
C29_Witness ==
    /\ stats.called
    /\ stats["circuit_breakers"] # {} /\ stats["bulkheads"] # {}
    /\ cb.total_requests > 0
    /\ bh.active_operations > 0


\* ------------------------------------- claims: CircuitBreaker, interleavings

\* C33: failure_count never exceeds config.failure_threshold
C33_FailureCountBounded == cb.failure_count <= cfg.failure_threshold

\* C34: total_requests = total_successes + total_failures in every state, and
\* no step lowers any of the three
C34_TotalsAddUp ==
    /\ [](cb.total_requests = cb.total_successes + cb.total_failures)
    /\ [][/\ cb'.total_requests >= cb.total_requests
          /\ cb'.total_successes >= cb.total_successes
          /\ cb'.total_failures >= cb.total_failures]_vars

\* the breaker has opened and closed again, after successes and failures
C34_Witness ==
    /\ cb.state = CLOSED
    /\ openedAt # NoTime
    /\ cb.failure_count = 0
    /\ cb.total_failures >= 1
    /\ cb.total_successes >= 1

\* C35: a refused call leaves state, failure_count, success_count,
\* last_failure_time and last_success_time as they were, so that the instants
\* at which the gate would admit a call are the same before and after
C35_RejectionChangesNothing ==
    [][Rejected =>
          /\ cb'.state = cb.state
          /\ cb'.failure_count = cb.failure_count
          /\ cb'.success_count = cb.success_count
          /\ cb'.last_failure_time = cb.last_failure_time
          /\ cb'.last_success_time = cb.last_success_time
          /\ \A t \in now..(now + cfg.recovery_timeout) :
                gate_rejects(cb', cfg, t) <=> gate_rejects(cb, cfg, t)]_vars

\* a call was refused one tick before the breaker admits the probe
C35_Witness ==
    /\ lastEv = Event("CircuitBreakerOpenException", OPEN)
    /\ cb.state = OPEN
    /\ now = cb.last_failure_time + cfg.recovery_timeout - 1
    /\ cfg.recovery_timeout >= 2

\* C36: success_count grows, and the breaker closes, only through the
\* success of a call that was admitted while the breaker was HALF_OPEN (or
\* that moved it there): never through a call admitted while CLOSED
C36_OnlyProbesCount ==
    [][(cb'.success_count > cb.success_count
            \/ (cb.state = HALF_OPEN /\ cb'.state = CLOSED))
          => inflight'[CLOSED] = inflight[CLOSED]]_vars

\* C37: while the state is OPEN, last_failure_time is the instant at which
\* the breaker entered OPEN
C37_OpenPeriodFixed ==
    cb.state = OPEN => cb.last_failure_time = openedAt

\* the changes of state the breaker may make
Transitions ==
    {<<CLOSED, OPEN>>, <<OPEN, HALF_OPEN>>, <<HALF_OPEN, CLOSED>>,
     <<HALF_OPEN, OPEN>>}
Allowed(from, to) == from = to \/ <<from, to>> \in Transitions

\* the state after the gate, in a step in which the gate admits a call
AfterGate == IF Admitted THEN lastEv'.from ELSE cb.state

\* C38: every change of state is CLOSED -> OPEN, OPEN -> HALF_OPEN,
\* HALF_OPEN -> CLOSED or HALF_OPEN -> OPEN, and OPEN -> HALF_OPEN is made
\* only when now - last_failure_time >= recovery_timeout
C38_StateChanges ==
    [][/\ Allowed(cb.state, AfterGate)
       /\ Allowed(AfterGate, cb'.state)
       /\ (cb.state = OPEN /\ AfterGate = HALF_OPEN) =>
              now - cb.last_failure_time >= cfg.recovery_timeout]_vars

\* a call admitted while CLOSED returned while the breaker was OPEN, and the
\* breaker stayed OPEN
C38_Witness ==
    /\ lastEv = Event("returned", OPEN)
    /\ cb.state = OPEN


\* ------------------------------------------------- claims: wait_for_permit

\* caller c is in wait_for_permit
Blocked(c) == wp[c].pc \in {"polling", "sleeping"}

\* the number of requests the limiter holds with timestamp t
GrantedAt(l, t) ==
    Cardinality({i \in DOMAIN l.requests : l.requests[i] = t})

\* C31: wait_for_permit returns only after an acquire() call of its own
\* returned True, each return having taken exactly one slot of the window;
\* and with max_requests >= 1, time advancing and each caller asking for one
\* permit, every caller in wait_for_permit returns
C31_WaitForPermit ==
    /\ [](\A c \in Callers :
            /\ wp[c].pc = "done" => wp[c].got = 1
            /\ wp[c].pc # "done" => wp[c].got = 0)
    /\ [][\A c \in Callers :
            (wp[c].pc # "done" /\ wp'[c].pc = "done") =>
                /\ wp'[c].got = wp[c].got + 1
                /\ GrantedAt(rl', now) = GrantedAt(rl, now) + 1]_vars
    /\ \A c \in Callers : Blocked(c) ~> wp[c].pc = "done"

\* every caller returned, one of them after it was refused and slept
C31_Witness ==
    /\ \A c \in Callers : wp[c].pc = "done"
    /\ \E c \in Callers : wp[c].polls >= 2


\* ------------------------------------------ claims: admission of a refused call

\* this step ends a call that got the rate permit and the bulkhead permit
\* and was refused by the circuit breaker
RefusedAfterAdmission ==
    call.pc # "done" /\ call'.pc = "done" /\ trace' = RejectedOrder

\* C40: when a call that passed the rate limiter and the bulkhead is refused
\* by the open breaker, the timestamp the rate limiter recorded for it stays
\* in the window, the bulkhead permit is released and active_operations is
\* what it was before the call
C40_RefusedCallResources ==
    [][RefusedAfterAdmission =>
          /\ call.granted # NoTime
          /\ GrantedAt(rl', call.granted) = 1
          /\ rl' = rl
          /\ call.holds /\ ~call'.holds
          /\ bh'.semaphore = bh.semaphore + 1
          /\ bh'.semaphore = bh.max_concurrent - call.before
          /\ bh'.active_operations = call.before]_vars
C40_Witness ==
    /\ Done
    /\ trace = RejectedOrder
    /\ call.result = "CircuitBreakerOpenException"
    /\ Len(rl.requests) = 1
    /\ bh.active_operations = 0

====
